---------------------------- MODULE Spec2Model ----------------------------
(***************************************************************************)
(* A model of the loose-object codec and stores of package git             *)
(* (dasa.cc/git): the Writer and Reader codecs, the tree entry transcoder, *)
(* DiskStore and MemStore.                                                  *)
(*                                                                         *)
(* Bytes are the naturals 0..255 and byte strings are sequences of them,   *)
(* so that headers, decimal lengths, hex digests and tree entries are      *)
(* computed the way the code computes them.                                 *)
(***************************************************************************)
EXTENDS Integers, Sequences, FiniteSets, TLC

(***************************************************************************)
(* Bounds of the model.                                                    *)
(***************************************************************************)
\* width of a raw digest in bytes (sha1.Size is 20; the model scales it down)
SumLen == 2
\* number of Writer() calls in one behaviour
MaxWriters == 2
\* number of Write calls on one writer
MaxWrites == 2
\* number of injected I/O faults in one behaviour
MaxFaults == 1

(***************************************************************************)
(* Bytes and byte strings.                                                 *)
(***************************************************************************)
NUL == 0
TAB == 9
LF == 10
SP == 32

Min(a, b) == IF a < b THEN a ELSE b

\* s without its first n elements
Drop(s, n) == IF n >= Len(s) THEN <<>> ELSE SubSeq(s, n + 1, Len(s))

\* the first n elements of s
Take(s, n) == IF n >= Len(s) THEN s ELSE SubSeq(s, 1, n)

\* position of the first c in s, 0 when there is none (bytes.IndexByte + 1)
IndexByte(s, c) ==
    IF \E i \in 1..Len(s) : s[i] = c
    THEN CHOOSE i \in 1..Len(s) : s[i] = c /\ \A j \in 1..(i - 1) : s[j] # c
    ELSE 0

\* strings.HasPrefix(s, prefix)
HasPrefix(s, prefix) ==
    Len(prefix) <= Len(s) /\ SubSeq(s, 1, Len(prefix)) = prefix

(***************************************************************************)
(* type.go: the type registry.                                             *)
(***************************************************************************)
Blob == 0
Tree == 1
Commit == 2
Types == {Blob, Tree, Commit}

\* Type.String: "blob", "tree", "commit"
TypeString(t) ==
    CASE t = Blob -> <<98, 108, 111, 98>>
      [] t = Tree -> <<116, 114, 101, 101>>
      [] t = Commit -> <<99, 111, 109, 109, 105, 116>>

\* fmt's %v of an int: decimal digits, '-' first when negative
RECURSIVE Itoa(_)
Itoa(n) ==
    IF n < 0 THEN <<45>> \o Itoa(0 - n)
    ELSE IF n < 10 THEN <<48 + n>>
    ELSE Itoa(n \div 10) \o <<48 + (n % 10)>>

\* a Header that leaves out the terminating NUL
HeaderUnterminated(t, length) == TypeString(t) \o <<SP>> \o Itoa(length)

\* Type.Header: "<type> <length>\x00"
Header(t, length) == TypeString(t) \o <<SP>> \o Itoa(length) \o <<NUL>>

\* ParseType: the type of a token; an unrecognised token panics
ParseType(q) ==
    IF q = TypeString(Blob) THEN [panic |-> FALSE, t |-> Blob]
    ELSE IF q = TypeString(Tree) THEN [panic |-> FALSE, t |-> Tree]
    ELSE IF q = TypeString(Commit) THEN [panic |-> FALSE, t |-> Commit]
    ELSE [panic |-> TRUE, t |-> Blob]

IsDigit(c) == c >= 48 /\ c <= 57

RECURSIVE DigitsValue(_)
DigitsValue(s) ==
    IF s = <<>> THEN 0
    ELSE 10 * DigitsValue(SubSeq(s, 1, Len(s) - 1)) + (s[Len(s)] - 48)

\* strconv.Atoi: an optional sign, then one or more decimal digits
Atoi(s) ==
    LET signed == s # <<>> /\ s[1] \in {43, 45}
        digits == IF signed THEN Drop(s, 1) ELSE s
    IN  IF digits = <<>> \/ \E i \in 1..Len(digits) : ~IsDigit(digits[i])
        THEN [err |-> "ErrSyntax", val |-> 0]
        ELSE [err |-> "nil",
              val |-> IF signed /\ s[1] = 45
                      THEN 0 - DigitsValue(digits) ELSE DigitsValue(digits)]

(***************************************************************************)
(* encoding/hex, as treeWriter and treeReader use it.                      *)
(***************************************************************************)
HexDigit(v) == IF v < 10 THEN 48 + v ELSE 87 + v

\* hex.Encode: two lowercase digits for each byte
RECURSIVE HexEncode(_)
HexEncode(src) ==
    IF src = <<>> THEN <<>>
    ELSE <<HexDigit(src[1] \div 16), HexDigit(src[1] % 16)>>
         \o HexEncode(Drop(src, 1))

\* the value of a hex digit of either case, 255 for any other byte
FromHexChar(c) ==
    IF c >= 48 /\ c <= 57 THEN c - 48
    ELSE IF c >= 97 /\ c <= 102 THEN c - 87
    ELSE IF c >= 65 /\ c <= 70 THEN c - 55
    ELSE 255

\* hex.Decode(dst, src): pairs are decoded into dst from its start until an
\* invalid digit; an odd length is an error after the pairs; a pair that has
\* no place in dst is an index out of range.
RECURSIVE HexDecode(_, _, _)
HexDecode(dst, src, i) ==
    IF Len(src) = 0 THEN [sum |-> dst, err |-> "nil"]
    ELSE IF Len(src) = 1
    THEN [sum |-> dst,
          err |-> IF FromHexChar(src[1]) > 15 THEN "InvalidByte" ELSE "ErrLength"]
    ELSE IF FromHexChar(src[1]) > 15 \/ FromHexChar(src[2]) > 15
    THEN [sum |-> dst, err |-> "InvalidByte"]
    ELSE IF i > Len(dst) THEN [sum |-> dst, err |-> "panic"]
    ELSE HexDecode([dst EXCEPT ![i] = 16 * FromHexChar(src[1]) + FromHexChar(src[2])],
                   Drop(src, 2), i + 1)

(***************************************************************************)
(* crypto/sha1 is modelled by a digest of SumLen bytes, each byte a        *)
(* polynomial fold of the input: a function of the bytes fed and of        *)
(* nothing else.                                                            *)
(***************************************************************************)
RECURSIVE Fold(_, _, _)
Fold(b, m, h) ==
    IF b = <<>> THEN h
    ELSE Fold(Drop(b, 1), m, (h * m + b[1] + 1) % 256)

\* hash.Hash.Sum(nil) after the bytes b were written to it
Sha1(b) == [i \in 1..SumLen |-> Fold(b, 3 + 36 * i, 26 * i)]

(***************************************************************************)
(* compress/zlib.  A stream is the header token, the data bytes, the       *)
(* end-of-data token and the Adler-32 checksum of the data (two tokens).   *)
(* Tokens lie above the byte range, so no data byte is mistaken for one.   *)
(***************************************************************************)
ZHeader == 256 + 120
ZFinal == 256 + 1

RECURSIVE AdlerA(_)
AdlerA(data) ==
    IF data = <<>> THEN 1
    ELSE (AdlerA(SubSeq(data, 1, Len(data) - 1)) + data[Len(data)]) % 65521

RECURSIVE AdlerB(_)
AdlerB(data) ==
    IF data = <<>> THEN 0
    ELSE (AdlerB(SubSeq(data, 1, Len(data) - 1)) + AdlerA(data)) % 65521

Adler32(data) == <<AdlerB(data), AdlerA(data)>>

\* the data bytes a stream holds: what follows the header up to the end token
StreamData(out) ==
    LET body == Drop(out, 1)
        fin == IndexByte(body, ZFinal)
    IN  IF fin = 0 THEN body ELSE Take(body, fin - 1)

\* zlib.NewWriter
ZNew == [wroteHeader |-> FALSE, closed |-> FALSE, err |-> "nil"]

\* zlib.Writer.Write(p) on the sink out: the header goes out with the first
\* write; a write after Close fails and the failure sticks.
ZWrite(z, out, p) ==
    LET out1 == IF z.wroteHeader THEN out ELSE out \o <<ZHeader>>
        z1 == [z EXCEPT !.wroteHeader = TRUE]
    IN  IF z1.err # "nil" THEN [z |-> z1, out |-> out1, n |-> 0, err |-> z1.err]
        ELSE IF p = <<>> THEN [z |-> z1, out |-> out1, n |-> 0, err |-> "nil"]
        ELSE IF z1.closed
        THEN [z |-> [z1 EXCEPT !.err = "WriterClosed"], out |-> out1,
              n |-> 0, err |-> "WriterClosed"]
        ELSE [z |-> z1, out |-> out1 \o p, n |-> Len(p), err |-> "nil"]

\* zlib.Writer.Close on the sink out (sinkOpen: the sink still takes writes):
\* the compressor is finished once, the checksum is written by every Close.
ZClose(z, out, sinkOpen) ==
    LET out1 == IF z.wroteHeader \/ ~sinkOpen THEN out ELSE out \o <<ZHeader>>
        z1 == [z EXCEPT !.wroteHeader = TRUE]
        out2 == IF z1.closed THEN out1 ELSE out1 \o <<ZFinal>>
    IN  IF z1.err # "nil" THEN [z |-> z1, out |-> out1, err |-> z1.err]
        ELSE IF ~sinkOpen
        THEN [z |-> [z1 EXCEPT !.err = "ErrClosed"], out |-> out, err |-> "ErrClosed"]
        ELSE [z |-> [z1 EXCEPT !.closed = TRUE],
              out |-> out2 \o Adler32(StreamData(out2)), err |-> "nil"]

\* zlib.NewReader and the reads to the end of the stream: the error of
\* opening it, the data it yields and the error that ends the data
\* ("EOF": the stream ended as a stream should).
Inflate(s) ==
    LET body == Drop(s, 1)
        fin == IndexByte(body, ZFinal)
        data == StreamData(s)
        sum == SubSeq(body, fin + 1, Min(fin + 2, Len(body)))
    IN  IF s = <<>> THEN [open |-> "UnexpectedEOF", data |-> <<>>, end |-> "EOF"]
        ELSE IF s[1] # ZHeader THEN [open |-> "ErrHeader", data |-> <<>>, end |-> "EOF"]
        ELSE [open |-> "nil", data |-> data,
              end |-> IF fin = 0 \/ Len(sum) < 2 THEN "UnexpectedEOF"
                      ELSE IF sum # Adler32(data) THEN "ErrChecksum"
                      ELSE "EOF"]

(***************************************************************************)
(* bufio.Reader over a bytes.Buffer, as treeWriter.Write makes one for     *)
(* every call: buf holds the bytes the reader has pulled and not yet       *)
(* handed out, src the bytes still in the bytes.Buffer.                     *)
(***************************************************************************)
BufioSize == 4096

\* bufio.Reader.ReadBytes(delim): the bytes up to and including delim; at the
\* end of the source the bytes read so far with io.EOF.  A fill pulls what
\* the source holds, up to the free space of the buffer.
RECURSIVE BufReadBytes(_, _, _)
BufReadBytes(br, delim, acc) ==
    LET i == IndexByte(br.buf, delim)
        k == Min(Len(br.src), BufioSize - Len(br.buf))
    IN  IF i > 0
        THEN [line |-> acc \o Take(br.buf, i), err |-> "nil",
              br |-> [br EXCEPT !.buf = Drop(br.buf, i)]]
        ELSE IF Len(br.buf) >= BufioSize
        THEN BufReadBytes([br EXCEPT !.buf = <<>>], delim, acc \o br.buf)
        ELSE IF br.src = <<>>
        THEN [line |-> acc \o br.buf, err |-> "EOF",
              br |-> [br EXCEPT !.buf = <<>>]]
        ELSE BufReadBytes([buf |-> br.buf \o Take(br.src, k), src |-> Drop(br.src, k)],
                          delim, acc)

(***************************************************************************)
(* writer.go: treeWriter.                                                  *)
(***************************************************************************)
\* the for loop of treeWriter.Write: one pretty line a turn, until a read or
\* hex.Decode fails
RECURSIVE TreeWriteLoop(_, _, _)
TreeWriteLoop(br, wbuf, sum) ==
    LET m == BufReadBytes(br, SP, <<>>)
        mode == IF m.line[1] = 48 THEN Drop(m.line, 1) ELSE m.line
        ty == BufReadBytes(m.br, SP, <<>>)
        h == BufReadBytes(ty.br, TAB, <<>>)
        dec == HexDecode(sum, Take(h.line, Len(h.line) - 1), 1)
        nm == BufReadBytes(h.br, LF, <<>>)
        name == [nm.line EXCEPT ![Len(nm.line)] = NUL]
    IN  IF m.err # "nil" THEN [br |-> m.br, wbuf |-> wbuf, sum |-> sum, err |-> m.err]
        ELSE IF ty.err # "nil"
        THEN [br |-> ty.br, wbuf |-> wbuf, sum |-> sum, err |-> ty.err]
        ELSE IF h.err # "nil"
        THEN [br |-> h.br, wbuf |-> wbuf, sum |-> sum, err |-> h.err]
        ELSE IF dec.err # "nil"
        THEN [br |-> h.br, wbuf |-> wbuf, sum |-> dec.sum, err |-> dec.err]
        ELSE IF nm.err # "nil"
        THEN [br |-> nm.br, wbuf |-> wbuf, sum |-> dec.sum, err |-> nm.err]
        ELSE TreeWriteLoop(nm.br, wbuf \o mode \o name \o dec.sum, dec.sum)

\* treeWriter.Write(p) for the writer g: p joins rbuf, a new bufio.Reader
\* reads rbuf line by line into wbuf (r is what the loop leaves), and at most
\* len(p) bytes of wbuf go to the intermediary file (the error of that write
\* is dropped).
TreeSpool(g, p, r) ==
    LET chunk == Take(r.wbuf, Len(p))
        n == IF g.tmpOpen THEN Len(chunk) ELSE 0
    IN  [g |-> [g EXCEPT !.rbuf = r.br.src,
                         !.wbuf = Drop(r.wbuf, Len(p)),
                         !.sum = r.sum,
                         !.tmp = IF g.tmpOpen THEN g.tmp \o chunk ELSE g.tmp],
         n |-> n, err |-> r.err]

TreeWrite(g, p) ==
    TreeSpool(g, p, TreeWriteLoop([buf |-> <<>>, src |-> g.rbuf \o p], g.wbuf, g.sum))

(***************************************************************************)
(* writer.go: writer.                                                      *)
(***************************************************************************)
\* NewWriter(staging): out is what staging holds, outOpen whether staging
\* still takes writes, hh the bytes written to the sha1 hash.  The zero Type
\* is Blob.
NewWriter ==
    [wroteHeader |-> FALSE, t |-> Blob,
     tw |-> FALSE, rbuf |-> <<>>, wbuf |-> <<>>, sum |-> [i \in 1..SumLen |-> 0],
     tmp |-> <<>>, tmpOpen |-> FALSE,
     zw |-> ZNew, out |-> <<>>, outOpen |-> TRUE, hh |-> <<>>]

\* a g.Writer that is the compressor alone: nothing reaches the hash
CompressOnlyOf(g, r) ==
    [g |-> [g EXCEPT !.zw = r.z, !.out = r.out], n |-> r.n, err |-> r.err]

CompressOnly(g, p) == CompressOnlyOf(g, ZWrite(g.zw, g.out, p))

\* g.Writer.Write(p), g.Writer being io.MultiWriter(g.zw, g.hh): the
\* compressor first, the hash only when the compressor took all of p
\* (r is what the compressor returned)
MultiTee(g, p, r) ==
    LET g1 == [g EXCEPT !.zw = r.z, !.out = r.out]
    IN  IF r.err # "nil" THEN [g |-> g1, n |-> r.n, err |-> r.err]
        ELSE IF r.n # Len(p) THEN [g |-> g1, n |-> r.n, err |-> "ErrShortWrite"]
        ELSE [g |-> [g1 EXCEPT !.hh = g.hh \o p], n |-> Len(p), err |-> "nil"]

MultiWrite(g, p) == MultiTee(g, p, ZWrite(g.zw, g.out, p))

\* a Write that does not ask for the header first
WriteUnchecked(g, p) ==
    IF g.tw THEN TreeWrite(g, p) ELSE MultiWrite(g, p)

\* writer.Write
Write(g, p) ==
    IF ~g.wroteHeader THEN [g |-> g, n |-> 0, err |-> "NoHeader"]
    ELSE IF g.tw THEN TreeWrite(g, p)
    ELSE MultiWrite(g, p)

\* a WriteHeader that does not refuse a second call
WriteHeaderUnchecked(g, t, s) ==
    IF t = Tree \/ s < 0
    THEN [g |-> [g EXCEPT !.t = t, !.wroteHeader = TRUE, !.tw = TRUE,
                          !.tmp = <<>>, !.tmpOpen = TRUE],
          n |-> 0, err |-> "nil"]
    ELSE MultiWrite([g EXCEPT !.t = t, !.wroteHeader = TRUE], Header(t, s))

\* a WriteHeader that spools a tree only when the size is negative
WriteHeaderSized(g, t, s) ==
    IF g.wroteHeader THEN [g |-> g, n |-> 0, err |-> "HeaderWritten"]
    ELSE IF s < 0
    THEN [g |-> [g EXCEPT !.t = t, !.wroteHeader = TRUE, !.tw = TRUE,
                          !.tmp = <<>>, !.tmpOpen = TRUE],
          n |-> 0, err |-> "nil"]
    ELSE Write([g EXCEPT !.t = t, !.wroteHeader = TRUE], Header(t, s))

\* writer.WriteHeader
WriteHeader(g, t, s) ==
    IF g.wroteHeader THEN [g |-> g, n |-> 0, err |-> "HeaderWritten"]
    ELSE IF t = Tree \/ s < 0
    THEN [g |-> [g EXCEPT !.t = t, !.wroteHeader = TRUE, !.tw = TRUE,
                          !.tmp = <<>>, !.tmpOpen = TRUE],
          n |-> 0, err |-> "nil"]
    ELSE Write([g EXCEPT !.t = t, !.wroteHeader = TRUE], Header(t, s))

\* the spooled part of writer.Close (g.tw != nil): the header with the size of
\* the intermediary file, then the file, through g.Writer
\* the writer and the error of a write r
Outcome(r) == [g |-> r.g, err |-> r.err]

\* io.Copy(g.Writer, g.tmp), hd being what the write of the header returned
CopySpool(tmp, hd) ==
    IF hd.err # "nil" \/ tmp = <<>> THEN Outcome(hd)
    ELSE Outcome(MultiWrite(hd.g, tmp))

CloseSpool(g) ==
    IF ~g.tmpOpen THEN [g |-> g, err |-> "ErrClosed"]
    ELSE CopySpool(g.tmp, MultiWrite([g EXCEPT !.tmpOpen = FALSE],
                                     Header(g.t, Len(g.tmp))))

\* g.zw.Close(), zc being what it returned
CloseStream(g, zc) ==
    [g |-> [g EXCEPT !.zw = zc.z, !.out = zc.out], err |-> zc.err]

\* the rest of writer.Close, sp being what the spooled part returned
CloseAfterSpool(sp) ==
    IF sp.err # "nil" THEN sp
    ELSE CloseStream(sp.g, ZClose(sp.g.zw, sp.g.out, sp.g.outOpen))

\* writer.Close (g.finalize is never set)
WriterClose(g) ==
    CloseAfterSpool(IF g.tw THEN CloseSpool(g) ELSE [g |-> g, err |-> "nil"])

\* writer.Hash: "%x" of the sha1 sum
Hash(g) == HexEncode(Sha1(g.hh))

(***************************************************************************)
(* Reader (src/unnamed/part_002).                                          *)
(***************************************************************************)
\* the lookahead of Reset: io.LimitReader(g.zr, 28)
HeaderLimit == 28
\* the buffer io.Copy reads with
CopyBufSize == 32 * 1024

\* the reader no Reader was made for: Reset returned err (or panicked)
NoReader(err, panic) ==
    [err |-> err, panic |-> panic, t |-> Blob, n |-> 0,
     tree |-> FALSE, src |-> <<>>, end |-> "EOF", buf |-> <<>>]

\* a Reset whose g.Reader is the stream alone, without what is left of the
\* lookahead
ResetNoLookahead(raw, pretty) ==
    LET inf == Inflate(raw)
        lim == Take(inf.data, HeaderLimit)
        limEnd == IF Len(inf.data) >= HeaderLimit THEN "EOF" ELSE inf.end
        i == IndexByte(lim, SP)
        pt == ParseType(Take(lim, i - 1))
        rest == Drop(lim, i)
        j == IndexByte(rest, NUL)
        a == Atoi(Take(rest, j - 1))
    IN  IF inf.open # "nil" THEN NoReader(inf.open, FALSE)
        ELSE IF i = 0 THEN NoReader(limEnd, FALSE)
        ELSE IF pt.panic THEN NoReader("nil", TRUE)
        ELSE IF j = 0 THEN NoReader(limEnd, FALSE)
        ELSE IF a.err # "nil" THEN NoReader(a.err, FALSE)
        ELSE [err |-> "nil", panic |-> FALSE, t |-> pt.t, n |-> a.val,
              tree |-> pretty /\ pt.t = Tree,
              src |-> Drop(inf.data, HeaderLimit),
              end |-> inf.end, buf |-> <<>>]

\* Reader.Reset(r) for r holding the bytes raw, and NewReader with it: the
\* stream is opened, the header is read from the first 28 bytes of its data,
\* and g.Reader is what is left of those 28 bytes followed by the rest of the
\* stream (src, ending with the error end).  A tree read with PrettyReader
\* gets a treeReader around it.
Reset(raw, pretty) ==
    LET inf == Inflate(raw)
        lim == Take(inf.data, HeaderLimit)
        limEnd == IF Len(inf.data) >= HeaderLimit THEN "EOF" ELSE inf.end
        i == IndexByte(lim, SP)
        pt == ParseType(Take(lim, i - 1))
        rest == Drop(lim, i)
        j == IndexByte(rest, NUL)
        a == Atoi(Take(rest, j - 1))
    IN  IF inf.open # "nil" THEN NoReader(inf.open, FALSE)
        ELSE IF i = 0 THEN NoReader(limEnd, FALSE)
        ELSE IF pt.panic THEN NoReader("nil", TRUE)
        ELSE IF j = 0 THEN NoReader(limEnd, FALSE)
        ELSE IF a.err # "nil" THEN NoReader(a.err, FALSE)
        ELSE [err |-> "nil", panic |-> FALSE, t |-> pt.t, n |-> a.val,
              tree |-> pretty /\ pt.t = Tree,
              src |-> Drop(rest, j) \o Drop(inf.data, HeaderLimit),
              end |-> inf.end, buf |-> <<>>]

\* the for loop of treeReader.Read(p), len(p) = plen: while buf holds no more
\* than plen bytes, one binary entry is read and its pretty line joins buf;
\* the mode and type are in buf before the name and the sum are read.
RECURSIVE TreeReadLoop(_, _)
TreeReadLoop(g, plen) ==
    LET i == IndexByte(g.src, SP)
        mode == Take(g.src, i)
        buf1 == IF mode[1] = 49 THEN g.buf \o mode \o TypeString(Blob) \o <<SP>>
                ELSE g.buf \o <<48>> \o mode \o TypeString(Tree) \o <<SP>>
        rest == Drop(g.src, i)
        j == IndexByte(rest, NUL)
        name == Take(rest, j - 1)
        rest2 == Drop(rest, j)
    IN  IF Len(g.buf) > plen THEN [g |-> g, err |-> "nil", panic |-> FALSE]
        ELSE IF i = 0
        THEN [g |-> [g EXCEPT !.src = <<>>], err |-> g.end, panic |-> FALSE]
        ELSE IF mode[1] \notin {49, 52}
        THEN [g |-> [g EXCEPT !.src = rest], err |-> "nil", panic |-> TRUE]
        ELSE IF j = 0
        THEN [g |-> [g EXCEPT !.src = <<>>, !.buf = buf1], err |-> g.end,
              panic |-> FALSE]
        ELSE IF Len(rest2) < SumLen
        THEN [g |-> [g EXCEPT !.src = rest2, !.buf = buf1], err |-> g.end,
              panic |-> FALSE]
        ELSE TreeReadLoop(
                 [g EXCEPT !.src = Drop(rest2, SumLen),
                           !.buf = buf1 \o HexEncode(Take(rest2, SumLen))
                                        \o <<TAB>> \o name \o <<LF>>],
                 plen)

\* a treeReader.Read that keeps no text for the Read after it
TreeReadDropping(g, plen) ==
    LET r == TreeReadLoop(g, plen)
    IN  [g |-> [r.g EXCEPT !.buf = <<>>],
         out |-> Take(r.g.buf, plen), err |-> r.err, panic |-> r.panic]

\* treeReader.Read(p): the loop, then at most len(p) bytes of buf, with the
\* error the loop ended on
TreeRead(g, plen) ==
    LET r == TreeReadLoop(g, plen)
    IN  [g |-> [r.g EXCEPT !.buf = Drop(r.g.buf, plen)],
         out |-> Take(r.g.buf, plen), err |-> r.err, panic |-> r.panic]

\* Reader.Read(p) without a treeReader: the next bytes of the stream, the
\* stream's end error once there are none
PlainRead(g, plen) ==
    IF g.src = <<>> THEN [g |-> g, out |-> <<>>, err |-> g.end, panic |-> FALSE]
    ELSE [g |-> [g EXCEPT !.src = Drop(g.src, plen)],
          out |-> Take(g.src, plen), err |-> "nil", panic |-> FALSE]

Read(g, plen) == IF g.tree THEN TreeRead(g, plen) ELSE PlainRead(g, plen)

\* io.Copy(dst, g): Read with a buffer of CopyBufSize until Read returns an
\* error; the bytes of every Read are kept, io.EOF is no error of the copy
RECURSIVE Copy(_, _)
Copy(g, acc) ==
    LET r == Read(g, CopyBufSize)
    IN  IF r.panic THEN [data |-> acc, err |-> "nil", panic |-> TRUE]
        ELSE IF r.err # "nil"
        THEN [data |-> acc \o r.out,
              err |-> IF r.err = "EOF" THEN "nil" ELSE r.err, panic |-> FALSE]
        ELSE Copy(r.g, acc \o r.out)

(***************************************************************************)
(* The stores (src/unnamed/part_003).  A DiskStore is the bucket           *)
(* directories under objects/ and the files in them, a file being keyed by *)
(* bucket and name together; a memStore is the map.                        *)
(***************************************************************************)
NoObject(err) == [err |-> err, kind |-> "none", key |-> <<>>]

\* DiskStore.Object
DiskObject(st, hash) ==
    LET d == Take(hash, 2)
        name == Drop(hash, 2)
        match == {k \in DOMAIN st.files : Take(k, 2) = d /\ HasPrefix(Drop(k, 2), name)}
    IN  IF Len(hash) < 2 THEN NoObject("panic")
        ELSE IF name = <<>> /\ d \in st.dirs
        THEN [err |-> "nil", kind |-> "dir", key |-> d]
        ELSE IF name # <<>> /\ hash \in DOMAIN st.files
        THEN [err |-> "nil", kind |-> "file", key |-> hash]
        ELSE IF d \notin st.dirs THEN NoObject("ENOENT")
        ELSE IF Cardinality(match) > 1 THEN NoObject("Ambiguous")
        ELSE IF match = {} THEN NoObject("NotExist")
        ELSE [err |-> "nil", kind |-> "file", key |-> CHOOSE k \in match : TRUE]

\* memStore.Object
MemObject(st, hash) ==
    LET match == {k \in DOMAIN st : HasPrefix(k, hash)}
    IN  IF hash \in DOMAIN st THEN [err |-> "nil", kind |-> "file", key |-> hash]
        ELSE IF Cardinality(match) > 1 THEN NoObject("Ambiguous")
        ELSE IF match = {} THEN NoObject("NotExist")
        ELSE [err |-> "nil", kind |-> "file", key |-> CHOOSE k \in match : TRUE]

\* DiskStore.Reader, o being what Object returned: a directory opened in place
\* of an object cannot be read
DiskReaderOn(st, o, pretty) ==
    IF o.err # "nil" THEN NoReader(o.err, o.err = "panic")
    ELSE IF o.kind = "dir" THEN NoReader("EISDIR", FALSE)
    ELSE Reset(st.files[o.key], pretty)

DiskReader(st, hash, pretty) == DiskReaderOn(st, DiskObject(st, hash), pretty)

\* memStore.Reader, o being what Object returned
MemReaderOn(st, o, pretty) ==
    IF o.err # "nil" THEN NoReader(o.err, FALSE)
    ELSE Reset(st[o.key], pretty)

MemReader(st, hash, pretty) == MemReaderOn(st, MemObject(st, hash), pretty)

\* what goes wrong in a diskCloser.Close: nothing, MkdirAll, or io.Copy after
\* k bytes
NoFault == [at |-> "none", k |-> 0]

\* diskCloser.Close from MkdirAll on, for the closed writer g and its hash
DiskPublish(g, hash, st, fault) ==
    LET st1 == [st EXCEPT !.dirs = st.dirs \cup {Take(hash, 2)}]
    IN  IF fault.at = "mkdir" THEN [g |-> g, st |-> st, err |-> "EIO"]
        ELSE IF hash \in DOMAIN st.files THEN [g |-> g, st |-> st1, err |-> "EEXIST"]
        ELSE IF fault.at = "copy"
        THEN [g |-> g,
              st |-> [st1 EXCEPT !.files = st.files @@ (hash :> Take(g.out, fault.k))],
              err |-> "EIO"]
        ELSE [g |-> [g EXCEPT !.outOpen = FALSE],
              st |-> [st1 EXCEPT !.files = st.files @@ (hash :> g.out)],
              err |-> "nil"]

\* diskCloser.Close after g.Writer.Close, which returned c
DiskCloseAfter(c, st, fault) ==
    IF c.err # "nil" THEN [g |-> c.g, st |-> st, err |-> c.err]
    ELSE DiskPublish(c.g, Hash(c.g), st, fault)

\* diskCloser.Close
DiskClose(g, st, fault) == DiskCloseAfter(WriterClose(g), st, fault)

\* a memCloser.Close that stores without asking whether the hash is bound
MemOverwrite(c, st) ==
    IF c.err # "nil" THEN [g |-> c.g, st |-> st, err |-> c.err]
    ELSE [g |-> c.g, st |-> (Hash(c.g) :> c.g.out) @@ st, err |-> "nil"]

MemCloseOverwrite(g, st) == MemOverwrite(WriterClose(g), st)

\* memCloser.Close after g.Writer.Close, which returned c
MemCloseAfter(c, st) ==
    IF c.err # "nil" THEN [g |-> c.g, st |-> st, err |-> c.err]
    ELSE IF Hash(c.g) \in DOMAIN st THEN [g |-> c.g, st |-> st, err |-> "Exists"]
    ELSE [g |-> c.g, st |-> st @@ (Hash(c.g) :> c.g.out), err |-> "nil"]

\* memCloser.Close
MemClose(g, st) == MemCloseAfter(WriterClose(g), st)

(***************************************************************************)
(* The callers' inputs.                                                    *)
(***************************************************************************)
\* a pretty tree line: "<mode> <type> <hex>\t<name>\n"
Line(mode, type, hex, name) ==
    mode \o <<SP>> \o type \o <<SP>> \o hex \o <<TAB>> \o name \o <<LF>>

\* a hex digest of the model's width
Digest(v) == HexEncode([i \in 1..SumLen |-> (v + 37 * i) % 256])

\* "100644 blob <hex>\tx\n", "040000 tree <hex>\ty\n", "160000 commit <hex>\tz\n"
BlobLine == Line(<<49, 48, 48, 54, 52, 52>>, TypeString(Blob), Digest(1), <<120>>)
TreeLine == Line(<<48, 52, 48, 48, 48, 48>>, TypeString(Tree), Digest(140), <<121>>)
LinkLine == Line(<<49, 54, 48, 48, 48, 48>>, TypeString(Commit), Digest(200), <<122>>)
Lines == {BlobLine, TreeLine, LinkLine}

\* the pretty trees the callers write: of no line, of one, and of two in
\* either order
TreeTexts == {<<>>} \cup Lines \cup {BlobLine \o TreeLine, TreeLine \o BlobLine}

\* "hi"
Hi == <<104, 105>>

\* the payloads a caller writes: to a store, and to a writer of its own
Payloads(k) == IF k = "raw" THEN TreeTexts \cup {Hi} ELSE {<<>>, Hi, BlobLine}

\* the types a caller declares
HeaderTypes(k) == IF k = "raw" THEN Types ELSE {Blob, Tree}

\* the sizes a caller declares for the payload d: unknown, its length, and
\* (with a writer of its own) a length that is not the payload's
Sizes(k, d) == IF k = "raw" THEN {-1, 0, Len(d)} ELSE {-1, Len(d)}

\* where an io.Copy of n bytes may stop when it fails
FaultCuts(n) == {0, n \div 2}

\* the lengths of the next Write when r bytes of the payload are left: the
\* last Write a caller makes passes the rest; before it, a caller of a store
\* writes the rest, half of it or a single byte, a caller with a writer of its
\* own any number of bytes
ChunkSizes(k, r, last) ==
    IF last THEN {r} \cap (1..r)
    ELSE IF k = "raw" THEN 1..r
    ELSE {1, (r + 1) \div 2, r} \cap (1..r)

\* the number of writers a caller makes
Writers(k) == IF k = "raw" THEN 1 ELSE MaxWriters

(***************************************************************************)
(* The state: one caller against one store (or against a writer and a      *)
(* staging file of its own, kind "raw"), using one writer at a time.       *)
(***************************************************************************)
VARIABLES
    kind,   \* "disk", "mem" or "raw"
    w,      \* the writer in use
    disk,   \* the DiskStore: [dirs, files]
    mem,    \* the memStore
    ret,    \* what the last call returned
    job,    \* the caller: its payload, how far it has written it, what it called
    rd,     \* a caller reading an object Read by Read
    par,    \* callers closing their writers at the same time
    twin    \* a memStore writer given the calls the DiskStore writer is given

vars == <<kind, w, disk, mem, ret, job, rd, par, twin>>

\* the WriteHeader call the writer did not refuse as a second one: its
\* arguments, what it returned and how many Close calls came before it
NoHdr == [ok |-> FALSE, t |-> Blob, s |-> 0, err |-> "nil", after |-> 0]
NoRet == [op |-> "none", n |-> 0, err |-> "nil", panic |-> FALSE,
          t |-> Blob, len |-> 0, data |-> <<>>, pretty |-> FALSE]
NoPrev == [ok |-> FALSE, hdr |-> NoHdr, fed |-> <<>>, hash |-> <<>>]

\* the caller before its first Writer()
NoJob ==
    [nw |-> 0, src |-> <<>>, pos |-> 0, writes |-> 0, closes |-> 0, faults |-> 0,
     hdr |-> NoHdr, closedAt |-> 0, closeErr |-> "nil", prev |-> NoPrev]

\* no caller reads Read by Read
NoRd == [phase |-> "none"]

\* no callers close at the same time
NoPar == [proc |-> <<>>, puts |-> <<>>, writing |-> FALSE, fatal |-> FALSE]

\* no writer runs alongside: the writer a twin begins with and what its last
\* call returned
NoTwin == [w |-> NewWriter, n |-> 0, err |-> "nil"]

InitWith(kinds) ==
    /\ twin = NoTwin
    /\ rd = NoRd
    /\ par = NoPar
    /\ kind \in kinds
    /\ w = NewWriter
    /\ disk = [dirs |-> {}, files |-> <<>>]
    /\ mem = <<>>
    /\ ret = NoRet
    /\ job = NoJob

Init == InitWith({"disk", "mem"})
InitRaw == InitWith({"raw"})

\* the bytes the caller has passed to Write before the first Close
Fed == Take(job.src, IF job.closes > 0 THEN job.closedAt ELSE job.pos)

\* DiskStore.Writer, memStore.Writer, or NewWriter(tmp): a new writer, and
\* the caller picks the payload d it will write with it
Writer(d) ==
    /\ job.nw < Writers(kind)
    /\ w' = NewWriter
    /\ job' = [NoJob EXCEPT !.nw = job.nw + 1, !.src = d, !.faults = job.faults,
                            !.prev = IF job.closes > 0 /\ job.closeErr = "nil"
                                     THEN [ok |-> TRUE, hdr |-> job.hdr,
                                           fed |-> Fed, hash |-> Hash(w)]
                                     ELSE NoPrev]
    /\ ret' = [NoRet EXCEPT !.op = "Writer"]
    /\ UNCHANGED <<kind, twin, disk, mem, rd, par>>

\* w.WriteHeader(t, s)
DoWriteHeader(t, s) ==
    \E r \in {WriteHeader(w, t, s)} :
        /\ job.nw > 0
        /\ w' = r.g
        /\ ret' = [NoRet EXCEPT !.op = "WriteHeader", !.n = r.n, !.err = r.err]
        /\ job' = IF r.err = "HeaderWritten" THEN job
                  ELSE [job EXCEPT !.hdr = [ok |-> TRUE, t |-> t, s |-> s, err |-> r.err,
                                             after |-> job.closes]]
        /\ UNCHANGED <<kind, twin, disk, mem, rd, par>>

\* w.Write(p), p the next k bytes of the payload; a caller told to call
\* WriteHeader first still has those bytes to write
DoWrite(k) ==
    \E r \in {Write(w, SubSeq(job.src, job.pos + 1, job.pos + k))} :
        /\ job.nw > 0
        /\ job.writes < MaxWrites
        /\ w' = r.g
        /\ ret' = [NoRet EXCEPT !.op = "Write", !.n = r.n, !.err = r.err]
        /\ job' = IF r.err = "NoHeader" THEN job
                  ELSE [job EXCEPT !.pos = job.pos + k, !.writes = job.writes + 1]
        /\ UNCHANGED <<kind, twin, disk, mem, rd, par>>

\* Close of a writer of the caller's own, c being what writer.Close returned:
\* no store is written
RawClose(c) == [g |-> c.g, st |-> <<>>, err |-> c.err]

\* what w.Close() does: of a diskCloser, a memCloser or the writer itself
CloseOf(k, fault) ==
    IF k = "disk" THEN DiskClose(w, disk, fault)
    ELSE IF k = "mem" THEN MemClose(w, mem)
    ELSE RawClose(WriterClose(w))

\* w.Close()
DoClose(fault) ==
    \E r \in {CloseOf(kind, fault)} :
        /\ job.nw > 0
        /\ job.closes < 2
        /\ fault.at # "none" => kind = "disk" /\ job.faults < MaxFaults
        /\ w' = r.g
        /\ disk' = IF kind = "disk" THEN r.st ELSE disk
        /\ mem' = IF kind = "mem" THEN r.st ELSE mem
        /\ ret' = [NoRet EXCEPT !.op = "Close", !.err = r.err]
        /\ job' = [job EXCEPT !.closes = job.closes + 1,
                              !.faults = IF fault.at = "none" THEN job.faults
                                         ELSE job.faults + 1,
                              !.closedAt = IF job.closes = 0 THEN job.pos
                                           ELSE job.closedAt,
                              !.closeErr = IF job.closes = 0 THEN r.err
                                           ELSE job.closeErr]
        /\ UNCHANGED <<kind, twin, rd, par>>

\* store.Reader(w.Hash(), options...), or NewReader(tmp, options...) on the
\* staging file of a writer of the caller's own, and io.Copy from the Reader
ReaderOf(k, pretty) ==
    IF k = "disk" THEN DiskReader(disk, Hash(w), pretty)
    ELSE IF k = "mem" THEN MemReader(mem, Hash(w), pretty)
    ELSE Reset(w.out, pretty)

DoReader(pretty) ==
    \E g \in {ReaderOf(kind, pretty)} : \E c \in {Copy(g, <<>>)} :
        /\ job.closes > 0
        /\ ret' = IF g.err # "nil" \/ g.panic
                  THEN [NoRet EXCEPT !.op = "Reader", !.err = g.err,
                                     !.panic = g.panic, !.pretty = pretty]
                  ELSE [op |-> "Reader", n |-> Len(c.data), err |-> c.err,
                        panic |-> c.panic, t |-> g.t, len |-> g.n,
                        data |-> c.data, pretty |-> pretty]
        /\ UNCHANGED <<kind, twin, w, disk, mem, job, rd, par>>

\* the faults a Close may meet when the storage medium fails
Faults == {NoFault, [at |-> "mkdir", k |-> 0]}
          \cup {[at |-> "copy", k |-> c] : c \in FaultCuts(Len(w.out) + 3)}

\* the calls a caller makes, F being what may go wrong in a Close
NextWith(F) ==
    \/ \E d \in Payloads(kind) : Writer(d)
    \/ \E t \in HeaderTypes(kind), s \in Sizes(kind, job.src) : DoWriteHeader(t, s)
    \/ \E k \in ChunkSizes(kind, Len(job.src) - job.pos, job.writes + 1 = MaxWrites) :
           DoWrite(k)
    \/ \E f \in F : DoClose(f)
    \/ \E pretty \in BOOLEAN : DoReader(pretty)

Next == NextWith({NoFault})
NextFault == NextWith(Faults)

\* a caller against a store whose medium does not fail
Spec == Init /\ [][Next]_vars

\* a caller against a store whose medium may fail
SpecFault == Init /\ [][NextFault]_vars

\* a caller against a writer of its own
SpecRaw == InitRaw /\ [][Next]_vars

(***************************************************************************)
(* A caller reading objects Read by Read: NewReader on an object, Reads    *)
(* with buffers of its choice, Reset to another object.                    *)
(***************************************************************************)
\* the entries of the trees read, the reads' buffer sizes, the Resets
MaxEntries == 2
MaxRead == 3
MaxResets == 1

\* zlib.NewWriter, Write(data), Close: the stream of data (r is what the
\* Write returned)
DeflateEnd(r) == ZClose(r.z, r.out, TRUE).out
Deflate(data) == DeflateEnd(ZWrite(ZNew, <<>>, data))

\* a tree entry and its binary form: "<mode> <name>\0<sum>"
Entry(mode, name, sum) == [mode |-> mode, name |-> name, sum |-> sum]
BinEntry(e) == e.mode \o <<SP>> \o e.name \o <<NUL>> \o e.sum

RECURSIVE BinTree(_)
BinTree(es) == IF es = <<>> THEN <<>> ELSE BinEntry(Head(es)) \o BinTree(Tail(es))

\* a sum of the model's width, and one of spaces and NULs
Sum(v) == [i \in 1..SumLen |-> (v + 37 * i) % 256]
BlankSum == [i \in 1..SumLen |-> IF i % 2 = 1 THEN SP ELSE NUL]

\* "100644 x\0<sum>", "40000 y\0<sum>" with the sum of spaces and NULs,
\* "160000 zz\0<sum>", and an entry whose mode begins with '2'
FileEntry == Entry(<<49, 48, 48, 54, 52, 52>>, <<120>>, Sum(1))
DirEntry == Entry(<<52, 48, 48, 48, 48>>, <<121>>, BlankSum)
LinkEntry == Entry(<<49, 54, 48, 48, 48, 48>>, <<122, 122>>, Sum(200))
OddEntry == Entry(<<50, 48, 48, 48, 48>>, <<113>>, Sum(3))
Entries == {FileEntry, DirEntry, LinkEntry, OddEntry}

\* the sequences of at most n entries
RECURSIVE EntrySeqs(_)
EntrySeqs(n) ==
    IF n = 0 THEN {<<>>}
    ELSE EntrySeqs(n - 1)
             \cup {<<e>> \o es : e \in Entries, es \in {x \in EntrySeqs(n - 1) : Len(x) = n - 1}}

\* an object: its type token, its payload, and the entries when it is a tree
TreeObject(es) == [token |-> TypeString(Tree), payload |-> BinTree(es), entries |-> es]
DataObject(token, d) == [token |-> token, payload |-> d, entries |-> <<>>]

\* "tag"
TagToken == <<116, 97, 103>>

\* the payloads of the blobs and commits read: with "blob <n>\0" before them
\* they are shorter than the lookahead of Reset, of its length, and longer
DataPayloads ==
    {<<>>, Hi, BlobLine, BlobLine \o <<120>>, BlobLine \o Hi, BlobLine \o TreeLine}

\* the objects read: trees, blobs, commits, and a tag
Objects ==
    {TreeObject(es) : es \in EntrySeqs(MaxEntries)}
        \cup {DataObject(TypeString(t), d) : t \in {Blob, Commit}, d \in DataPayloads}
        \cup {DataObject(TagToken, Hi)}

\* the framed record of an object, "<type> <len>\0<payload>", and the stream
\* a store holds for it
Record(o) == o.token \o <<SP>> \o Itoa(Len(o.payload)) \o <<NUL>> \o o.payload
Stored(o) == Deflate(Record(o))

\* the sizes of the buffers passed to Read: a few bytes, a pretty line, and
\* the buffer of io.Copy
ReadSizes == (1..MaxRead) \cup {Len(BlobLine), CopyBufSize}

InitRead ==
    /\ twin = NoTwin
    /\ kind = "read"
    /\ w = NewWriter
    /\ disk = [dirs |-> {}, files |-> <<>>]
    /\ mem = <<>>
    /\ ret = NoRet
    /\ job = NoJob
    /\ par = NoPar
    /\ rd \in {[phase |-> "new", pretty |-> p, resets |-> 0] : p \in BOOLEAN}

\* the caller after NewReader or Reset on the object o returned g: what it
\* got from Read so far, and the biggest buffer it passed
Opened(o, g, resets) ==
    [phase |-> IF g.panic THEN "panic" ELSE IF g.err # "nil" THEN "failed" ELSE "open",
     pretty |-> rd.pretty, resets |-> resets, obj |-> o, g |-> g,
     got |-> <<>>, big |-> 0, err |-> g.err, panic |-> g.panic]

\* NewReader(r, options...), r holding the stream of o
DoNewReader(o) ==
    /\ rd.phase = "new"
    /\ rd' = Opened(o, Reset(Stored(o), rd.pretty), 0)
    /\ UNCHANGED <<kind, twin, w, disk, mem, ret, job, par>>

\* g.Reset(r), r holding the stream of o, once the object before it was read
\* to its end or NewReader had failed: the options are kept
DoReset(o) ==
    /\ rd.phase \in {"failed", "done"}
    /\ rd.resets < MaxResets
    /\ rd' = Opened(o, Reset(Stored(o), rd.pretty), rd.resets + 1)
    /\ UNCHANGED <<kind, twin, w, disk, mem, ret, job, par>>

\* g.Read(p) with len(p) = plen, on a Reader that has returned no error
DoRead(plen) ==
    /\ rd.phase = "open"
    /\ \E r \in {Read(rd.g, plen)} :
        /\ rd' = [rd EXCEPT !.phase = IF r.panic THEN "panic"
                                      ELSE IF r.err # "nil" THEN "done" ELSE "open",
                            !.g = r.g,
                            !.got = IF r.panic THEN rd.got ELSE rd.got \o r.out,
                            !.big = IF plen > rd.big THEN plen ELSE rd.big,
                            !.err = r.err,
                            !.panic = r.panic]
        /\ UNCHANGED <<kind, twin, w, disk, mem, ret, job, par>>

NextRead ==
    \/ \E o \in Objects : DoNewReader(o)
    \/ \E o \in Objects : DoReset(o)
    \/ \E plen \in ReadSizes : DoRead(plen)

\* a caller reading objects
SpecRead == InitRead /\ [][NextRead]_vars

(***************************************************************************)
(* Callers of one store closing their writers at the same time, each in a  *)
(* goroutine of its own.  A Close is the steps between which the other     *)
(* goroutines may run: g.Writer.Close() and Hash(), which touch the writer *)
(* alone, then the steps on the store.  The map of a memStore is a Go map: *)
(* an assignment marks the map as being written while it runs, and an      *)
(* access or an assignment that finds the mark ends the process with a     *)
(* fatal error.  par.puts lists the hashes in the order they were bound.   *)
(***************************************************************************)
MaxProcs == 2

\* the payloads of the callers that close at the same time
ParPayloads == {Hi, BlobLine}

\* st.Writer(), WriteHeader(Blob, len(d)) and Write(d): the writer of a
\* caller about to call Close (h is what WriteHeader returned)
Written(h, d) == Write(h.g, d).g
Ready(d) ==
    [pc |-> "close", g |-> Written(WriteHeader(NewWriter, Blob, Len(d)), d),
     src |-> d, hash |-> <<>>, err |-> "nil"]

InitPar ==
    /\ twin = NoTwin
    /\ kind \in {"disk", "mem"}
    /\ w = NewWriter
    /\ disk = [dirs |-> {}, files |-> <<>>]
    /\ mem = <<>>
    /\ ret = NoRet
    /\ job = NoJob
    /\ rd = NoRd
    /\ par \in {[NoPar EXCEPT !.proc = [i \in 1..MaxProcs |-> Ready(ds[i])]] :
                    ds \in [1..MaxProcs -> ParPayloads]}

\* caller i is at the step pc of its Close, and the process runs: after a
\* fatal error no goroutine does
Running(i, pc) == ~par.fatal /\ par.proc[i].pc = pc

\* what is left of Close for caller i after g.Writer.Close() returned c
ParClosed(i, c) ==
    [par.proc[i] EXCEPT !.g = c.g,
                        !.hash = IF c.err = "nil" THEN Hash(c.g) ELSE <<>>,
                        !.err = c.err,
                        !.pc = IF c.err # "nil" THEN "done"
                               ELSE IF kind = "mem" THEN "lookup" ELSE "mkdir"]

\* g.Writer.Close() and g.Writer.Hash() of caller i
ParClose(i) ==
    /\ Running(i, "close")
    /\ par' = [par EXCEPT !.proc[i] = ParClosed(i, WriterClose(par.proc[i].g))]
    /\ UNCHANGED <<kind, twin, w, disk, mem, ret, job, rd>>

\* memCloser.Close: _, ok := g.st[hash]
ParLookup(i) ==
    /\ Running(i, "lookup")
    /\ par' = IF par.writing THEN [par EXCEPT !.fatal = TRUE]
              ELSE IF par.proc[i].hash \in DOMAIN mem
              THEN [par EXCEPT !.proc[i].pc = "done", !.proc[i].err = "Exists"]
              ELSE [par EXCEPT !.proc[i].pc = "assign"]
    /\ UNCHANGED <<kind, twin, w, disk, mem, ret, job, rd>>

\* memCloser.Close: g.st[hash] = g.buf.Bytes(), the assignment begins
ParAssign(i) ==
    /\ Running(i, "assign")
    /\ par' = IF par.writing THEN [par EXCEPT !.fatal = TRUE]
              ELSE [par EXCEPT !.writing = TRUE, !.proc[i].pc = "assigning"]
    /\ UNCHANGED <<kind, twin, w, disk, mem, ret, job, rd>>

\* memCloser.Close: the assignment ends, return nil
ParAssigned(i) ==
    /\ Running(i, "assigning")
    /\ mem' = (par.proc[i].hash :> par.proc[i].g.out) @@ mem
    /\ par' = [par EXCEPT !.writing = FALSE, !.proc[i].pc = "done",
                          !.puts = Append(par.puts, par.proc[i].hash)]
    /\ UNCHANGED <<kind, twin, w, disk, ret, job, rd>>

\* diskCloser.Close: os.MkdirAll(filepath.Dir(p), 0755)
ParMkdir(i) ==
    /\ Running(i, "mkdir")
    /\ disk' = [disk EXCEPT !.dirs = disk.dirs \cup {Take(par.proc[i].hash, 2)}]
    /\ par' = [par EXCEPT !.proc[i].pc = "create"]
    /\ UNCHANGED <<kind, twin, w, mem, ret, job, rd>>

\* diskCloser.Close: os.OpenFile(p, O_WRONLY|O_CREATE|O_EXCL, 0444)
ParCreate(i) ==
    /\ Running(i, "create")
    /\ IF par.proc[i].hash \in DOMAIN disk.files
       THEN /\ par' = [par EXCEPT !.proc[i].pc = "done", !.proc[i].err = "EEXIST"]
            /\ UNCHANGED disk
       ELSE /\ disk' = [disk EXCEPT !.files = disk.files @@ (par.proc[i].hash :> <<>>)]
            /\ par' = [par EXCEPT !.proc[i].pc = "copy",
                                  !.puts = Append(par.puts, par.proc[i].hash)]
    /\ UNCHANGED <<kind, twin, w, mem, ret, job, rd>>

\* diskCloser.Close: io.Copy(f, g.f), g.f.Close(), return nil
ParCopy(i) ==
    /\ Running(i, "copy")
    /\ disk' = [disk EXCEPT !.files[par.proc[i].hash] = par.proc[i].g.out]
    /\ par' = [par EXCEPT !.proc[i].pc = "done", !.proc[i].g.outOpen = FALSE]
    /\ UNCHANGED <<kind, twin, w, mem, ret, job, rd>>

\* the next step of caller i
ParStep(i) ==
    \/ ParClose(i)
    \/ ParLookup(i)
    \/ ParAssign(i)
    \/ ParAssigned(i)
    \/ ParMkdir(i)
    \/ ParCreate(i)
    \/ ParCopy(i)

\* a goroutine runs on
NextPar == \E i \in 1..MaxProcs : ParStep(i)

\* callers of one store closing their writers at the same time
SpecPar == InitPar /\ [][NextPar]_vars

(***************************************************************************)
(* A caller reading trees whose payload ends in the middle of an entry.    *)
(***************************************************************************)
\* a tree whose payload is the entries es and then the first k bytes of the
\* entry e
CutObject(es, e, k) ==
    [token |-> TypeString(Tree), payload |-> BinTree(es) \o Take(BinEntry(e), k),
     entries |-> es, last |-> e, cut |-> k]

\* the trees read: no entry or one before the entry that is cut, which is cut
\* after every number of its bytes but none and all
CutsOf(es, e) == {CutObject(es, e, k) : k \in 1..(Len(BinEntry(e)) - 1)}
CutObjects ==
    UNION {CutsOf(es, e) : es \in {<<>>, <<FileEntry>>, <<DirEntry>>},
                           e \in {FileEntry, DirEntry}}

NextCut ==
    \/ \E o \in CutObjects : DoNewReader(o)
    \/ \E o \in CutObjects : DoReset(o)
    \/ \E plen \in ReadSizes : DoRead(plen)

\* a caller reading trees that end in the middle of an entry
SpecCut == InitRead /\ [][NextCut]_vars

(***************************************************************************)
(* The callers closing at the same time, and a goroutine that resolves     *)
(* their hashes with Object and reads what Object returned.                *)
(***************************************************************************)
\* what st.Object(h) and reading its io.Reader to the end give, o being what
\* Object returned and bytes the bytes of the objects
ObjectRead(h, o, bytes) ==
    [op |-> "Object", hash |-> h, err |-> o.err,
     data |-> IF o.err = "nil" /\ o.kind = "file" THEN bytes[o.key] ELSE <<>>]

\* st.Object(hash) for the hash of caller i, and io.ReadAll: on a memStore
\* an access of the map while an assignment runs ends the process
ParObject(i) ==
    /\ ~par.fatal
    /\ par.proc[i].hash # <<>>
    /\ IF kind = "mem" /\ par.writing
       THEN /\ par' = [par EXCEPT !.fatal = TRUE]
            /\ UNCHANGED ret
       ELSE /\ ret' = IF kind = "mem"
                      THEN ObjectRead(par.proc[i].hash,
                                      MemObject(mem, par.proc[i].hash), mem)
                      ELSE ObjectRead(par.proc[i].hash,
                                      DiskObject(disk, par.proc[i].hash), disk.files)
            /\ UNCHANGED par
    /\ UNCHANGED <<kind, twin, w, disk, mem, job, rd>>

NextVis ==
    \/ \E i \in 1..MaxProcs : ParStep(i)
    \/ \E i \in 1..MaxProcs : ParObject(i)

\* callers closing at the same time while their hashes are resolved
SpecVis == InitPar /\ [][NextVis]_vars

(***************************************************************************)
(* One caller making every call twice: on a DiskStore and its writer (w),  *)
(* and on a memStore and its writer (twin.w).  Both stores start empty.    *)
(***************************************************************************)
InitBoth ==
    /\ kind = "both"
    /\ w = NewWriter
    /\ twin = NoTwin
    /\ disk = [dirs |-> {}, files |-> <<>>]
    /\ mem = <<>>
    /\ ret = NoRet
    /\ job = NoJob
    /\ rd = NoRd
    /\ par = NoPar

\* DiskStore.Writer() and memStore.Writer(), for the payload d
BothWriter(d) ==
    /\ job.nw < MaxWriters
    /\ w' = NewWriter
    /\ twin' = NoTwin
    /\ job' = [NoJob EXCEPT !.nw = job.nw + 1, !.src = d]
    /\ ret' = [NoRet EXCEPT !.op = "Writer"]
    /\ UNCHANGED <<kind, disk, mem, rd, par>>

\* WriteHeader(t, s) on both writers
BothWriteHeader(t, s) ==
    \E r \in {WriteHeader(w, t, s)} : \E m \in {WriteHeader(twin.w, t, s)} :
        /\ job.nw > 0
        /\ w' = r.g
        /\ twin' = [w |-> m.g, n |-> m.n, err |-> m.err]
        /\ ret' = [NoRet EXCEPT !.op = "WriteHeader", !.n = r.n, !.err = r.err]
        /\ job' = IF r.err = "HeaderWritten" THEN job
                  ELSE [job EXCEPT !.hdr = [ok |-> TRUE, t |-> t, s |-> s, err |-> r.err,
                                             after |-> job.closes]]
        /\ UNCHANGED <<kind, disk, mem, rd, par>>

\* Write(p) on both writers, p the next k bytes of the payload
BothWrite(k) ==
    \E r \in {Write(w, SubSeq(job.src, job.pos + 1, job.pos + k))} :
    \E m \in {Write(twin.w, SubSeq(job.src, job.pos + 1, job.pos + k))} :
        /\ job.nw > 0
        /\ job.writes < MaxWrites
        /\ w' = r.g
        /\ twin' = [w |-> m.g, n |-> m.n, err |-> m.err]
        /\ ret' = [NoRet EXCEPT !.op = "Write", !.n = r.n, !.err = r.err]
        /\ job' = IF r.err = "NoHeader" THEN job
                  ELSE [job EXCEPT !.pos = job.pos + k, !.writes = job.writes + 1]
        /\ UNCHANGED <<kind, rd, par, disk, mem>>

\* Close() on both writers
BothClose ==
    \E r \in {DiskClose(w, disk, NoFault)} : \E m \in {MemClose(twin.w, mem)} :
        /\ job.nw > 0
        /\ job.closes < 2
        /\ w' = r.g
        /\ disk' = r.st
        /\ twin' = [w |-> m.g, n |-> 0, err |-> m.err]
        /\ mem' = m.st
        /\ ret' = [NoRet EXCEPT !.op = "Close", !.err = r.err]
        /\ job' = [job EXCEPT !.closes = job.closes + 1,
                              !.closedAt = IF job.closes = 0 THEN job.pos
                                           ELSE job.closedAt,
                              !.closeErr = IF job.closes = 0 THEN r.err
                                           ELSE job.closeErr]
        /\ UNCHANGED <<kind, rd, par>>

NextBoth ==
    \/ \E d \in Payloads(kind) : BothWriter(d)
    \/ \E t \in HeaderTypes(kind), s \in Sizes(kind, job.src) : BothWriteHeader(t, s)
    \/ \E k \in ChunkSizes(kind, Len(job.src) - job.pos, job.writes + 1 = MaxWrites) :
           BothWrite(k)
    \/ BothClose

\* a caller making every call on a DiskStore and on a memStore
SpecBoth == InitBoth /\ [][NextBoth]_vars

(***************************************************************************)
(* The properties.                                                         *)
(***************************************************************************)
\* the first Close of the writer in use has returned nil
Closed == job.closes > 0 /\ job.closeErr = "nil"

\* WriteHeader(t, s) returned nil on the writer in use, before any Close
Declared(t, s) ==
    job.hdr = [ok |-> TRUE, t |-> t, s |-> s, err |-> "nil", after |-> 0]

\* some WriteHeader returned nil on the writer in use, before any Close
DeclaredAny == job.hdr.ok /\ job.hdr.err = "nil" /\ job.hdr.after = 0

\* the last call was store.Reader(w.Hash(), ...) and the copy of its payload
Returned == ret.op = "Reader"

\* C1: blob round trip.  When a caller of a store has declared Blob with the
\* length of the bytes D it then passed to Write, in whatever chunks, and
\* Close returned nil, store.Reader(w.Hash()) returns a Reader without error
\* whose Type is Blob, whose Len is len(D) and whose payload read to EOF is D.
C1_BlobRoundTrip ==
    (Returned /\ Closed /\ Declared(Blob, Len(Fed)))
        => /\ ret.err = "nil"
           /\ ~ret.panic
           /\ ret.t = Blob
           /\ ret.len = Len(Fed)
           /\ ret.data = Fed

\* C1 happens: a blob of a whole tree line, passed in two Write calls, was
\* published and has been read back
C1_Witness ==
    /\ Returned /\ Closed /\ Declared(Blob, Len(Fed))
    /\ job.writes = 2
    /\ Fed = BlobLine
    /\ ret.data = BlobLine

\* the bytes of a hash are lowercase hex digits
IsLowerHex(h) == \A i \in 1..Len(h) : h[i] \in (48..57) \cup (97..102)

\* C2: after a Close that returned nil, Hash() is the lowercase hex digest,
\* two digits for each digest byte, of exactly the bytes that went through
\* the compressor, and these bytes begin with the header "<type> <length>\0"
\* of the declared type.
C2_HashOfFramedRecord ==
    Closed
        => /\ Hash(w) = HexEncode(Sha1(StreamData(w.out)))
           /\ Len(Hash(w)) = 2 * SumLen
           /\ IsLowerHex(Hash(w))
           /\ DeclaredAny
                  => \E n \in 0..Len(job.src) :
                         HasPrefix(StreamData(w.out), Header(job.hdr.t, n))

\* C2 happens: the blob "hi" was closed, and the framed record "blob 2\0hi"
\* went through the compressor
C2_Witness ==
    /\ Closed
    /\ Declared(Blob, 2)
    /\ StreamData(w.out) = Header(Blob, 2) \o Hi

\* C3: tree round trip.  When a caller has written a well-formed pretty tree
\* T in one Write after WriteHeader(Tree, -1) and closed the writer, reading
\* the object back with PrettyReader returns T, line for line, a leading zero
\* of a mode restored.
C3_TreeRoundTrip ==
    (Returned /\ ret.pretty /\ Closed /\ Declared(Tree, -1)
     /\ job.src \in TreeTexts /\ Fed = job.src /\ job.writes <= 1)
        => /\ ret.err = "nil"
           /\ ~ret.panic
           /\ ret.t = Tree
           /\ ret.data = job.src

\* the part of C3 that happens: a tree of a blob line and a tree line, the
\* mode of the second with a leading zero, is read back as it was written
C3_Witness ==
    /\ Returned /\ ret.pretty /\ Closed /\ Declared(Tree, -1)
    /\ job.writes = 1
    /\ Fed = BlobLine \o TreeLine
    /\ ret.err = "nil"
    /\ ret.data = BlobLine \o TreeLine

\* C4: unknown-length write of a blob or a commit.  When a caller has
\* declared Blob or Commit with a negative size, passed the bytes D to Write
\* and Close returned nil, the record that went through the compressor is
\* the header with length len(D) followed by D, unmodified.
C4_UnknownLengthVerbatim ==
    (Closed /\ DeclaredAny /\ job.hdr.t \in {Blob, Commit} /\ job.hdr.s < 0)
        => StreamData(w.out) = Header(job.hdr.t, Len(Fed)) \o Fed

\* the store the caller uses: its keys and its Object
Keys == IF kind = "disk" THEN DOMAIN disk.files ELSE DOMAIN mem
Object(h) == IF kind = "disk" THEN DiskObject(disk, h) ELSE MemObject(mem, h)

\* the prefixes of a hash that name at least its bucket (hash[:2])
Prefixes(h) == {Take(h, n) : n \in 2..Len(h)}

\* the queries: every stored hash and a hash that is not stored, in full and
\* abbreviated
Queries == UNION {Prefixes(h) : h \in Keys \cup {Digest(0)}}

\* what resolving h among the stored hashes is to give
Resolve(h) ==
    LET match == {k \in Keys : HasPrefix(k, h)}
    IN  IF h \in Keys THEN [err |-> "nil", key |-> h]
        ELSE IF match = {} THEN [err |-> "NotFound", key |-> <<>>]
        ELSE IF Cardinality(match) > 1 THEN [err |-> "Ambiguous", key |-> <<>>]
        ELSE [err |-> "nil", key |-> CHOOSE k \in match : TRUE]

\* the kind of an error of Object
ErrKind(e) == IF e \in {"NotExist", "ENOENT"} THEN "NotFound" ELSE e

\* C5: hash resolution.  For every content of the store and every query,
\* Object returns the object under the query when it is a key, the one object
\* whose hash it abbreviates when there is exactly one, and fails with
\* NotFound when there is none and with Ambiguous when there are several.
C5_HashResolution ==
    \A h \in Queries :
        LET o == Object(h)
            e == Resolve(h)
        IN  /\ ErrKind(o.err) = e.err
            /\ e.err = "nil" => o.kind = "file" /\ o.key = e.key

\* the part of C5 that happens: two stored hashes share their first three
\* digits; the three digits are Ambiguous and each full hash is found
C5_Witness ==
    \E a, b \in Keys :
        /\ a # b
        /\ Take(a, 3) = Take(b, 3)
        /\ Object(Take(a, 3)).err = "Ambiguous"
        /\ Object(a).err = "nil" /\ Object(a).key = a
        /\ Object(b).err = "nil" /\ Object(b).key = b

\* C6: idempotent publish.  When a second writer of the same store has been
\* given the header and the bytes of a writer before it whose Close returned
\* nil, its Close returns nil as well, the two Hash() values are equal, and
\* the store binds that hash once.
C6_IdempotentPublish ==
    (job.prev.ok /\ job.closes > 0 /\ DeclaredAny
     /\ job.hdr = job.prev.hdr /\ Fed = job.prev.fed)
        => /\ job.closeErr = "nil"
           /\ Hash(w) = job.prev.hash
           /\ Cardinality({k \in Keys : k = Hash(w)}) = 1

\* the bytes the store binds to the hash d
Bytes(d) == IF kind = "disk" THEN disk.files[d] ELSE mem[d]

\* C7: binding immutability.  No call, a Close that fails or is repeated
\* included, removes a binding of a store or changes the bytes a hash is
\* bound to.
C7_BindingImmutable ==
    [][/\ \A d \in DOMAIN disk.files :
              d \in DOMAIN disk.files' /\ disk.files'[d] = disk.files[d]
       /\ \A d \in DOMAIN mem :
              d \in DOMAIN mem' /\ mem'[d] = mem[d]]_vars

\* C7 happens: a hash is bound, a second writer of the same content was closed
\* twice, and what its staging area holds is no longer what the hash is
\* bound to
C7_Witness ==
    /\ job.prev.ok
    /\ job.closes = 2
    /\ job.closeErr \in {"Exists", "EEXIST"}
    /\ Hash(w) = job.prev.hash
    /\ Hash(w) \in Keys
    /\ Bytes(Hash(w)) # w.out

\* C8: Write before WriteHeader.  A Write on a writer that has no header
\* returns (0, error) and leaves the writer and the store as they were; on a
\* writer that was not closed every WriteHeader then still returns nil.
C8_WriteBeforeHeader ==
    [][(ret'.op = "Write" /\ ~w.wroteHeader)
           => /\ ret'.n = 0
              /\ ret'.err # "nil"
              /\ w' = w
              /\ disk' = disk /\ mem' = mem
              /\ job.closes = 0
                     => \A t \in Types, s \in {-1, 0, Len(job.src)} :
                            WriteHeader(w', t, s).err = "nil"]_vars

\* C8 happens: the caller passed "h" of "hi" to a writer without a header
C8_Witness ==
    /\ ret.op = "Write"
    /\ ret.err = "NoHeader"
    /\ ret.n = 0
    /\ job.src = Hi
    /\ w = NewWriter

\* C9: duplicate WriteHeader.  A WriteHeader returns nil only on a writer
\* that has no header, which then has one; on a writer that has a header it
\* returns an error and leaves the writer and the store as they were.
C9_DuplicateHeader ==
    [][ret'.op = "WriteHeader"
           => /\ ret'.err = "nil" => ~w.wroteHeader /\ w'.wroteHeader
              /\ w.wroteHeader
                     => ret'.err # "nil" /\ w' = w /\ disk' = disk /\ mem' = mem]_vars

\* C9 happens: a second WriteHeader was refused after bytes of the payload
\* had gone to the compressor and the hash
C9_Witness ==
    /\ ret.op = "WriteHeader"
    /\ ret.err = "HeaderWritten"
    /\ job.writes > 0
    /\ w.hh = Header(Blob, 2) \o <<104>>

\* what the tree writer spools when the whole of T comes in one Write
SingleWriteSpool(T) == TreeWrite(WriteHeader(NewWriter, Tree, -1).g, T).g.tmp

\* C10: encode chunk independence.  When a caller has passed the whole of a
\* well-formed pretty tree T to the tree writer, in whatever chunks, the
\* spool holds what it holds when T comes in one Write.
C10_ChunkIndependence ==
    (Declared(Tree, -1) /\ job.closes = 0
     /\ job.src \in TreeTexts /\ job.pos = Len(job.src))
        => w.tmp = SingleWriteSpool(job.src)

\* the part of C10 that happens: two lines written a line a Write spool as
\* they do in one Write
C10_Witness ==
    /\ Declared(Tree, -1) /\ job.closes = 0
    /\ job.src = BlobLine \o TreeLine
    /\ job.pos = Len(job.src)
    /\ job.writes = 2
    /\ w.tmp = SingleWriteSpool(job.src)
    /\ w.tmp # <<>>

\* the step is a Close of the writer in use after a first one returned nil
SecondCloseStep == job.closes = 1 /\ job'.closes = 2 /\ job.closeErr = "nil"

\* C13: double Close is guarded.  A Close of a writer whose first Close
\* returned nil returns an error, appends nothing to the staging sink, leaves
\* Hash() as it was and leaves the store as it was.
C13_DoubleCloseGuarded ==
    [][SecondCloseStep
           => /\ ret'.err # "nil"
              /\ w'.out = w.out
              /\ Hash(w') = Hash(w)
              /\ disk' = disk /\ mem' = mem]_vars

\* the part of C13 that happens: the second Close of a spooling writer is
\* refused, its intermediary file being closed, and the staging sink holds
\* the stream the first Close left
C13_Witness ==
    /\ job.closes = 2
    /\ job.closeErr = "nil"
    /\ ret.op = "Close"
    /\ ret.err = "ErrClosed"
    /\ DeclaredAny /\ job.hdr.s < 0
    /\ Inflate(w.out).end = "EOF"

\* the step is a Close of the writer in use
CloseStep == ret'.op = "Close" /\ job'.closes = job.closes + 1

\* C14: no partial success on write.  When the Close of a store writer
\* returns an error, whatever failed, the store binds after it the hashes it
\* bound before it, each to the same bytes.
C14_NoPartialPublish ==
    [][(CloseStep /\ ret'.err # "nil")
           => disk'.files = disk.files /\ mem' = mem]_vars

\* the part of C14 that happens: the directory of the object could not be
\* made, Close returned the error and the store binds nothing
C14_Witness ==
    /\ kind = "disk"
    /\ ret.op = "Close"
    /\ ret.err = "EIO"
    /\ job.closes = 1
    /\ w.hh # <<>>
    /\ Keys = {}

\* the sizes a caller may pass with Tree: negative, zero, a length and
\* lengths that are no payload's
SizeArgs == {-1, 0, 1, Len(job.src), 1000}

\* the step is the first Close of the writer in use, and it returned nil
FirstCloseStep == job.closes = 0 /\ job'.closes = 1 /\ ret'.err = "nil"

\* C17: Tree ignores the declared size.  A WriteHeader(Tree, s) that is not
\* refused returns what it returns, and leaves the writer as it leaves it,
\* with every other size, so that the Writes and the Close that follow do the
\* same; and when the first Close of a writer with Tree declared returns nil,
\* the record is the header with the measured length of the binary form in
\* the intermediary file, then that form, and Hash() is its digest.
C17_TreeIgnoresSize ==
    [][/\ (ret'.op = "WriteHeader" /\ ret'.err # "HeaderWritten"
           /\ job'.hdr.t = Tree /\ job.closes = 0)
              => \A s2 \in SizeArgs :
                     WriteHeader(w, Tree, s2) = [g |-> w', n |-> ret'.n, err |-> ret'.err]
       /\ (FirstCloseStep /\ DeclaredAny /\ job.hdr.t = Tree)
              => /\ StreamData(w'.out) = Header(Tree, Len(w.tmp)) \o w.tmp
                 /\ Hash(w') = HexEncode(Sha1(Header(Tree, Len(w.tmp)) \o w.tmp))]_vars

\* C17 happens: Tree was declared with the length of the pretty text of two
\* lines, and the record closed has the length of their binary form
C17_Witness ==
    /\ Closed
    /\ Declared(Tree, Len(BlobLine \o TreeLine))
    /\ Fed = BlobLine \o TreeLine
    /\ job.writes = 1
    /\ w.tmp = SingleWriteSpool(BlobLine \o TreeLine)
    /\ StreamData(w.out) = Header(Tree, Len(w.tmp)) \o w.tmp
    /\ Len(w.tmp) # Len(Fed)

\* C18: header length invariant.  When a header was declared and the first
\* Close returned nil, the decimal length in the header of the record is the
\* number of bytes that follow the header in the record.
C18_HeaderLength ==
    (Closed /\ DeclaredAny)
        => LET rec == StreamData(w.out)
               j == IndexByte(rec, NUL)
           IN  /\ j > 0
               /\ Take(rec, j) = Header(job.hdr.t, Len(rec) - j)

\* the part of C18 that happens: a size was declared, as many bytes were
\* written, and the header of the record has their number
C18_Witness ==
    /\ Closed
    /\ Declared(Blob, Len(BlobLine))
    /\ Fed = BlobLine
    /\ StreamData(w.out) = Header(Blob, Len(BlobLine)) \o BlobLine

\* C19: the writer is inert after Close.  After the first Close of a writer
\* has returned, every Write and every WriteHeader on it returns an error,
\* leaves Hash() and the staging sink as they were and leaves the store as it
\* was.
C19_InertAfterClose ==
    [][(job.closes > 0 /\ ret'.op \in {"Write", "WriteHeader"})
           => /\ ret'.err # "nil"
              /\ Hash(w') = Hash(w)
              /\ w'.out = w.out
              /\ disk' = disk /\ mem' = mem]_vars

\* the part of C19 that happens: a Write after the Close of a blob is
\* refused by the closed compressor
C19_Witness ==
    /\ job.closes = 1
    /\ Closed
    /\ Declared(Blob, 2)
    /\ ret.op = "Write"
    /\ ret.err = "WriterClosed"
    /\ StreamData(w.out) = Header(Blob, 2) \o <<104>>

\* NewReader or Reset has been called on an object
Constructed == rd.phase \in {"open", "failed", "done", "panic"}

\* the pretty line of a tree entry: a mode that begins with '1' as it is, with
\* blob; a mode that begins with '4' after a '0', with tree
PrettyEntry(e) ==
    Line(IF e.mode[1] = 52 THEN <<48>> \o e.mode ELSE e.mode,
         IF e.mode[1] = 52 THEN TypeString(Tree) ELSE TypeString(Blob),
         HexEncode(e.sum), e.name)

RECURSIVE PrettyTree(_)
PrettyTree(es) ==
    IF es = <<>> THEN <<>> ELSE PrettyEntry(Head(es)) \o PrettyTree(Tail(es))

\* every mode of the entries begins with '1' or with '4'
WellFormed(es) == \A i \in 1..Len(es) : es[i].mode[1] \in {49, 52}

\* a tree is read with PrettyReader
ReadsPretty == Constructed /\ rd.pretty /\ rd.obj.token = TypeString(Tree)

TypeTokens == {TypeString(t) : t \in Types}

\* C15: an unknown type is an error value.  NewReader or Reset on an object
\* whose type token is none of blob, tree and commit returns an UnknownType
\* error and no Reader, and does not abort the process.
C15_UnknownTypeError ==
    (Constructed /\ rd.obj.token \notin TypeTokens)
        => /\ rd.phase = "failed"
           /\ ~rd.panic
           /\ rd.err = "UnknownType"

\* a blob, a commit or a tree is read without PrettyReader
ReadsRaw == Constructed /\ ~rd.pretty /\ rd.obj.token \in TypeTokens

\* C16: Reader construction consumes exactly the header.  When NewReader or
\* Reset has returned on a well-formed object read without PrettyReader, a
\* Reader was returned whose Type and Len are those of the header, before any
\* Read the whole payload is still to be read, and whatever the sizes of the
\* buffers passed to Read, the bytes returned so far begin the payload and
\* the Read that returns io.EOF completes it.
C16_HeaderConsumedExactly ==
    ReadsRaw
        => /\ rd.phase \in {"open", "done"}
           /\ TypeString(rd.g.t) = rd.obj.token
           /\ rd.g.n = Len(rd.obj.payload)
           /\ rd.big = 0 => rd.got = <<>> /\ rd.g.src = rd.obj.payload
           /\ HasPrefix(rd.obj.payload, rd.got)
           /\ rd.phase = "done" => rd.err = "EOF" /\ rd.got = rd.obj.payload

\* C16 happens: a blob longer than the lookahead was read to io.EOF with
\* buffers of at most three bytes, out of a Reader that was Reset to it
C16_Witness ==
    /\ ReadsRaw
    /\ rd.obj = DataObject(TypeString(Blob), BlobLine \o TreeLine)
    /\ rd.resets = 1
    /\ rd.phase = "done"
    /\ rd.big = 3
    /\ rd.got = BlobLine \o TreeLine
    /\ rd.g.n = Len(rd.got)

\* the entries before the first whose mode begins with neither '1' nor '4'
RECURSIVE Sound(_)
Sound(es) ==
    IF es = <<>> \/ Head(es).mode[1] \notin {49, 52} THEN <<>>
    ELSE <<Head(es)>> \o Sound(Tail(es))

\* C20: decode mode mapping and malformed mode.  When a tree is read with
\* PrettyReader, the Reads return the lines of the entries before the first
\* malformed one, a mode that begins with '1' unchanged with blob, a mode that
\* begins with '4' after a '0' with tree; a malformed entry makes a Read
\* return a malformed-tree error, without a line for it, and does not abort
\* the process.
C20_ModeMapping ==
    ReadsPretty
        => /\ rd.phase \in {"open", "done"}
           /\ ~rd.panic
           /\ HasPrefix(PrettyTree(Sound(rd.obj.entries)), rd.got)
           /\ rd.phase = "done"
                  => /\ rd.got = PrettyTree(Sound(rd.obj.entries))
                     /\ rd.err = IF WellFormed(rd.obj.entries) THEN "EOF"
                                 ELSE "MalformedTree"

\* the part of C20 that happens: "40000 y" and "160000 zz" were read in one
\* Read as "040000 tree <hex>\ty\n" and "160000 blob <hex>\tzz\n"
C20_Witness ==
    /\ ReadsPretty
    /\ rd.obj.entries = <<DirEntry, LinkEntry>>
    /\ rd.phase = "done"
    /\ rd.big = CopyBufSize
    /\ rd.got = Line(<<48, 52, 48, 48, 48, 48>>, TypeString(Tree),
                     HexEncode(BlankSum), <<121>>)
                    \o Line(<<49, 54, 48, 48, 48, 48>>, TypeString(Blob),
                            HexEncode(Sum(200)), <<122, 122>>)

\* every caller's Close has returned
AllClosed == par.proc # <<>> /\ \A i \in DOMAIN par.proc : par.proc[i].pc = "done"

\* the stream of the blob d
BlobStream(d) == Deflate(Header(Blob, Len(d)) \o d)

\* C12: concurrent publish.  When callers close writers of one store at the
\* same time, however their steps interleave, the process does not end on
\* the map, no hash is bound twice, and when every Close has returned each
\* caller's hash is bound, once, to the stream of its content.
C12_ConcurrentPublish ==
    /\ ~par.fatal
    /\ \A m, n \in DOMAIN par.puts : m # n => par.puts[m] # par.puts[n]
    /\ AllClosed
           => \A i \in DOMAIN par.proc :
                  /\ par.proc[i].hash \in Keys
                  /\ Bytes(par.proc[i].hash) = BlobStream(par.proc[i].src)

\* the part of C12 that happens: two callers have closed writers of "hi" on a
\* DiskStore at the same time; one Close returned nil, the other failed on
\* the exclusive create, and the hash is bound once to the stream of "hi"
C12_Witness ==
    /\ kind = "disk"
    /\ AllClosed
    /\ par.proc[1].src = Hi /\ par.proc[2].src = Hi
    /\ par.proc[1].err = "EEXIST"
    /\ par.proc[2].err = "nil"
    /\ par.puts = <<par.proc[2].hash>>
    /\ Keys = {par.proc[2].hash}
    /\ Bytes(par.proc[2].hash) = BlobStream(Hi)

\* C24: every published binding is a well-formed record.  In every state of
\* a store, whatever calls were made on its writers, Reader(hash) on each
\* bound hash returns a Reader without error: the bytes bound decompress to a
\* record that begins with a header of a known type and a decimal length.
C24_WellFormedBinding ==
    \A k \in Keys :
        /\ Reset(Bytes(k), FALSE).err = "nil"
        /\ ~Reset(Bytes(k), FALSE).panic
        /\ HasPrefix(Inflate(Bytes(k)).data,
                     Header(Reset(Bytes(k), FALSE).t, Reset(Bytes(k), FALSE).n))

\* the part of C24 that happens: the blob "hi" was declared, written and
\* closed, and the bytes bound to its hash are the record "blob 2\0hi"
C24_Witness ==
    /\ Closed
    /\ Declared(Blob, 2)
    /\ Fed = Hi
    /\ Hash(w) \in Keys
    /\ Reset(Bytes(Hash(w)), FALSE).err = "nil"
    /\ Inflate(Bytes(Hash(w))).data = Header(Blob, 2) \o Hi

\* a tree is read with PrettyReader whose payload ends after the mode of an
\* entry and its space, inside the name, or inside the sum
ReadsCut ==
    /\ ReadsPretty
    /\ rd.obj.cut > Len(rd.obj.last.mode)
    /\ rd.obj.cut < Len(BinEntry(rd.obj.last))

\* C21: truncated tree stream.  When a tree whose payload ends in the middle
\* of an entry is read with PrettyReader, the Reads return the lines of the
\* entries before it and nothing of the incomplete entry, and the Read that
\* ends the reading returns a Truncated error, not io.EOF.
C21_TruncatedTree ==
    ReadsCut
        => /\ rd.phase \in {"open", "done"}
           /\ HasPrefix(PrettyTree(rd.obj.entries), rd.got)
           /\ rd.phase = "done"
                  => /\ rd.err = "Truncated"
                     /\ rd.got = PrettyTree(rd.obj.entries)

\* C23: atomic visibility of publish.  While callers close writers of a
\* store, every Object(hash) that returns without error returns the whole
\* stream of the record whose hash it is, however the steps interleave.
C23_AtomicVisibility ==
    (ret.op = "Object" /\ ret.err = "nil")
        => \E i \in DOMAIN par.proc :
               /\ par.proc[i].hash = ret.hash
               /\ ret.data = BlobStream(par.proc[i].src)

\* the part of C23 that happens: Object returned the whole stream of "hi"
\* from a DiskStore while the second caller of "hi" had yet to try its
\* exclusive create
C23_Witness ==
    /\ kind = "disk"
    /\ ret.op = "Object" /\ ret.err = "nil"
    /\ ret.hash = par.proc[1].hash
    /\ ret.data = BlobStream(Hi)
    /\ par.proc[1].pc = "done" /\ par.proc[1].err = "nil"
    /\ par.proc[2].pc = "create"
    /\ par.proc[2].src = Hi

\* the hashes either store binds, and their abbreviations of every length
BothKeys == (DOMAIN disk.files) \cup (DOMAIN mem)
BothQueries == UNION {{Take(h, n) : n \in 1..Len(h)} : h \in BothKeys} \cup {Digest(0)}

\* the class of what Object returned: the object found, or how it failed
ObjectClass(o) ==
    IF o.err # "nil" THEN <<ErrKind(o.err)>>
    ELSE IF o.kind = "file" THEN <<"object", o.key>>
    ELSE <<"directory", o.key>>

\* C22: backend interchangeability.  When every call is made on a DiskStore
\* and on a memStore that began empty, after every call the two bind the
\* same hashes, the call has failed on both or on neither, and every query,
\* a bound hash, an abbreviation of one of any length, or a hash that is not
\* bound, resolves to the same object or fails in the same way on both.
C22_Interchangeable ==
    /\ DOMAIN disk.files = DOMAIN mem
    /\ (ret.err = "nil") = (twin.err = "nil")
    /\ \A h \in BothQueries :
           ObjectClass(DiskObject(disk, h)) = ObjectClass(MemObject(mem, h))

\* the part of C22 that happens: the second writer of the same blob fails to
\* publish on both stores, which bind the one hash, and the full hash and a
\* hash that is not bound resolve alike
C22_Witness ==
    /\ job.nw = 2
    /\ job.closes = 1
    /\ Declared(Blob, 2) /\ Fed = Hi
    /\ ret.op = "Close"
    /\ ret.err = "EEXIST" /\ twin.err = "Exists"
    /\ DOMAIN disk.files = {Hash(w)} /\ DOMAIN mem = {Hash(w)}
    /\ ObjectClass(DiskObject(disk, Hash(w))) = <<"object", Hash(w)>>
    /\ ObjectClass(MemObject(mem, Hash(w))) = <<"object", Hash(w)>>
    /\ ObjectClass(DiskObject(disk, Digest(0))) = <<"NotFound">>
    /\ ObjectClass(MemObject(mem, Digest(0))) = <<"NotFound">>

=============================================================================
